---- MODULE Spec2Model ----
(***************************************************************************)
(* A model of js/app.js of the Personal-Portfolio page: the application    *)
(* state appState, the host's table of interval timers, the scrollable     *)
(* project list, the data loading of init, the project-card click and the  *)
(* contact form.  Every function of the script is an operator that maps    *)
(* the state it reads to the state it leaves; every event the page can     *)
(* receive is an action that runs the listeners registered for it.         *)
(***************************************************************************)
EXTENDS Integers, Sequences, FiniteSets, TLC

\* ------------------------------------------------------------------ bounds

\* Handles the host hands out through setInterval before the model stops
\* accepting new holds.
MaxTimers == 4

\* Timer callbacks that run before the model stops ticking.
MaxTicks == 3

\* Invocations of init.
MaxInits == 2

\* The same two bounds while the functions are called directly.
ApiTimers == 3

ApiTicks == 2

\* The same two bounds while the whole page takes part.
PageTimers == 1

PageTicks == 1

\* ------------------------------------------------------- program constants

\* JavaScript's null in an integer-valued slot (a timer handle): falsy, and no
\* handle of setInterval, which are positive.
NULL == 0

\* The media query of getAxis: (min-width: 1024px).
MIN_WIDTH == 1024

\* The factor of scrollByAxis: Math.abs(delta) * 20.
SCROLL_FACTOR == 20

\* JavaScript's null where the other values are strings or records.
Null == [kind |-> "null"]

\* The element #projectList, as the container argument of the scroll functions.
PROJECT_LIST == [kind |-> "element", id |-> "projectList"]

\* Viewport widths the window takes: both sides of the threshold and on it.
Widths == {1023, 1024, 1280}

Directions == {-1, 1}

Abs(n) == IF n < 0 THEN -n ELSE n

\* ------------------------------------------------------------------- state

VARIABLES
    appState,       \* the script's appState object
    timers,         \* the host's interval timers: [live, next]
    projectList,    \* the scroll offsets of #projectList: [scrollLeft, scrollTop]
    viewportWidth,  \* the window's width in CSS pixels
    resizePending,  \* the width changed and the resize event is still to fire
    uncaught,       \* an exception left a function of the script uncaught
    nTicks,         \* timer callbacks run so far
    session,        \* ghost: the last start: offsets then, ticks since on each axis, directions
    last,           \* ghost: the last call into the scroll functions and the slot before it
    dom,            \* the ids of the elements the document holds
    initPc,         \* where each invocation of init stands
    listeners,      \* the registrations made through addEventListener
    cards,          \* the data-id of each card rendered into #projectList
    spotlight,      \* what #projectSpotlight shows
    aboutMe,        \* what #aboutMe shows
    form,           \* the contact form: inputs, error texts, counter
    alerted,        \* ghost: the last submit reported success
    initRuns        \* ghost: times init rendered and registered its listeners

scrollVars == <<timers, projectList, nTicks, session>>

pageVars == <<dom, initPc, listeners, cards, spotlight, aboutMe, form, alerted,
              initRuns>>

vars == <<appState, viewportWidth, resizePending, uncaught, last, scrollVars,
          pageVars>>

\* ------------------------------------------------------ responsive scrolling

\* Mutant: the query written (min-width: 1025px), a strict comparison.
matchMediaMinWidth_Strict(px, w) == w > px

\* window.matchMedia('(min-width: <px>px)').matches at viewport width w.
matchMediaMinWidth(px, w) == w >= px

getAxis(w) == IF matchMediaMinWidth(MIN_WIDTH, w) THEN "y" ELSE "x"

\* Mutant: the two branches of the axis test exchanged.
scrollByAxis_SwappedAxes(el, container, delta, w) ==
    IF container = Null
    THEN [el |-> el, threw |-> FALSE]
    ELSE LET step == IF delta > 0 THEN Abs(delta) * 20 ELSE -(Abs(delta) * 20)
         IN  IF w >= 1024
             THEN [el |-> [el EXCEPT !.scrollLeft = @ + step], threw |-> FALSE]
             ELSE [el |-> [el EXCEPT !.scrollTop = @ + step], threw |-> FALSE]

\* Mutant: no test of the container: null.scrollLeft raises a TypeError.
scrollByAxis_NoGuard(el, container, delta, w) ==
    LET step == IF delta > 0 THEN Abs(delta) * 20 ELSE -(Abs(delta) * 20)
    IN  IF container = Null
        THEN [el |-> el, threw |-> TRUE]
        ELSE IF w >= 1024
        THEN [el |-> [el EXCEPT !.scrollTop = @ + step], threw |-> FALSE]
        ELSE [el |-> [el EXCEPT !.scrollLeft = @ + step], threw |-> FALSE]

\* scrollByAxis(container, delta) on the element el at viewport width w:
\* the element afterwards, and whether the call threw.
scrollByAxis(el, container, delta, w) ==
    IF container = Null
    THEN [el |-> el, threw |-> FALSE]
    ELSE LET axis == getAxis(w)
             scrollAmount == Abs(delta) * SCROLL_FACTOR
             step == IF delta > 0 THEN scrollAmount ELSE -scrollAmount
         IN  IF axis = "x"
             THEN [el |-> [el EXCEPT !.scrollLeft = @ + step], threw |-> FALSE]
             ELSE [el |-> [el EXCEPT !.scrollTop = @ + step], threw |-> FALSE]

\* setInterval(() => scrollByAxis(container, direction), 50): a fresh handle.
setInterval(tt, container, direction) ==
    [timers |-> [live |-> tt.live \cup {[id |-> tt.next,
                                          container |-> container,
                                          direction |-> direction]},
                 next |-> tt.next + 1],
     handle |-> tt.next]

clearInterval(tt, handle) ==
    [tt EXCEPT !.live = {t \in @ : t.id # handle}]

\* Mutant: the running timer is not cleared before the new one is made.
startContinuousScroll_NoClear(app, tt, container, direction) ==
    LET made == setInterval(tt, container, direction)
    IN  [appState |-> [app EXCEPT !.scrollController = made.handle],
         timers |-> made.timers,
         threw |-> FALSE]

\* Mutant: a guard that returns when the container is missing.
startContinuousScroll_Guarded(app, tt, container, direction) ==
    IF container = Null
    THEN [appState |-> app, timers |-> tt, threw |-> FALSE]
    ELSE LET cleared == IF app.scrollController # NULL
                        THEN clearInterval(tt, app.scrollController)
                        ELSE tt
             made == setInterval(cleared, container, direction)
         IN  [appState |-> [app EXCEPT !.scrollController = made.handle],
              timers |-> made.timers,
              threw |-> FALSE]

startContinuousScroll(app, tt, container, direction) ==
    LET cleared == IF app.scrollController # NULL
                   THEN clearInterval(tt, app.scrollController)
                   ELSE tt
        made == setInterval(cleared, container, direction)
    IN  [appState |-> [app EXCEPT !.scrollController = made.handle],
         timers |-> made.timers,
         threw |-> FALSE]

\* Mutant: the slot is emptied and the timer left running.
stopContinuousScroll_NoClear(app, tt) ==
    [appState |-> [app EXCEPT !.scrollController = NULL], timers |-> tt,
     threw |-> FALSE]

\* Mutant: no test of the slot, and a method called on what it holds: a
\* TypeError when it holds null.
stopContinuousScroll_Unguarded(app, tt) ==
    IF app.scrollController # NULL
    THEN [appState |-> [app EXCEPT !.scrollController = NULL],
          timers |-> clearInterval(tt, app.scrollController),
          threw |-> FALSE]
    ELSE [appState |-> app, timers |-> tt, threw |-> TRUE]

stopContinuousScroll(app, tt) ==
    IF app.scrollController # NULL
    THEN [appState |-> [app EXCEPT !.scrollController = NULL],
          timers |-> clearInterval(tt, app.scrollController),
          threw |-> FALSE]
    ELSE [appState |-> app, timers |-> tt, threw |-> FALSE]

\* ------------------------------------------------------------- data loading

\* A string-valued slot holding the string s (currentProjectId is null or this).
Str(s) == [kind |-> "string", value |-> s]

\* a || b on strings: '' stands for every falsy value a JSON field can take
\* (absent, null, ''), which || treats alike.
OrElse(a, b) == IF a = "" THEN b ELSE a

CARD_PLACEHOLDER == "/images/card_placeholder_bg.webp"

SPOTLIGHT_PLACEHOLDER == "/images/spotlight_placeholder_bg.webp"

normalizeProject(project) ==
    [id |-> OrElse(project.project_id, "unknown"),
     name |-> OrElse(project.project_name, "Untitled Project"),
     short |-> OrElse(project.short_description, "No description available."),
     long |-> OrElse(project.long_description, "Detailed information coming soon."),
     url |-> OrElse(project.url, "#"),
     cardImage |-> OrElse(project.card_image, CARD_PLACEHOLDER),
     spotlightImage |-> OrElse(project.spotlight_image, SPOTLIGHT_PLACEHOLDER)]

\* fetchJSON on one outcome of the request: the parsed body, or an exception
\* (HTTP status not ok, the network failing, the 5000 ms abort, a body that
\* is no JSON).
fetchJSON(outcome) ==
    IF outcome.kind = "ok"
    THEN [threw |-> FALSE, value |-> outcome.body]
    ELSE [threw |-> TRUE, value |-> Null]

AboutFallback ==
    [kind |-> "object", aboutMe |-> "Coming soon...", headshot |-> ""]

AboutCritical ==
    [kind |-> "object", aboutMe |-> "About section coming soon...", headshot |-> ""]

PlaceholderProject ==
    [id |-> "placeholder", name |-> "Coming Soon",
     short |-> "Projects will be available soon.",
     long |-> "New projects are being developed and will be showcased here soon.",
     url |-> "#", cardImage |-> CARD_PLACEHOLDER,
     spotlightImage |-> SPOTLIGHT_PLACEHOLDER]

ErrorFallbackProject ==
    [id |-> "error-fallback", name |-> "Loading Error",
     short |-> "Unable to load projects.",
     long |-> "Please refresh the page to try loading projects again.",
     url |-> "#", cardImage |-> CARD_PLACEHOLDER,
     spotlightImage |-> SPOTLIGHT_PLACEHOLDER]

EmptyArray == [kind |-> "array", items |-> <<>>]

\* projectsData.map(normalizeProject) throws a TypeError when the body is no
\* array (no map method) or holds a null (normalizeProject reads null.project_id).
mapThrows(json) ==
    \/ json.kind # "array"
    \/ \E i \in 1..Len(json.items) : json.items[i] = Null

\* Mutant: the block that puts the placeholder in an empty list left out.
loadAllData_NoPlaceholder(app, aboutOutcome, projectsOutcome) ==
    LET a == fetchJSON(aboutOutcome)
        p == fetchJSON(projectsOutcome)
        projectsData == IF p.threw THEN EmptyArray ELSE p.value
    IN  IF mapThrows(projectsData)
        THEN [app EXCEPT !.aboutMeData = AboutCritical,
                         !.projectsData = <<ErrorFallbackProject>>]
        ELSE [app EXCEPT !.aboutMeData = IF a.threw THEN AboutFallback ELSE a.value,
                         !.projectsData = [i \in 1..Len(projectsData.items) |->
                                              normalizeProject(projectsData.items[i])]]

\* loadAllData, from the await of Promise.all to its end, on the outcomes of
\* the two requests.
loadAllData(app, aboutOutcome, projectsOutcome) ==
    LET a == fetchJSON(aboutOutcome)
        p == fetchJSON(projectsOutcome)
        aboutMeData == IF a.threw THEN AboutFallback ELSE a.value
        projectsData == IF p.threw THEN EmptyArray ELSE p.value
    IN  IF mapThrows(projectsData)
        THEN [app EXCEPT !.aboutMeData = AboutCritical,
                         !.projectsData = <<ErrorFallbackProject>>]
        ELSE LET mapped == [i \in 1..Len(projectsData.items) |->
                               normalizeProject(projectsData.items[i])]
             IN  [app EXCEPT !.aboutMeData = aboutMeData,
                             !.projectsData = IF Len(mapped) = 0
                                              THEN <<PlaceholderProject>>
                                              ELSE mapped]

\* ----------------------------------------------------------------- rendering

renderAboutMe(shown, elems, data) ==
    IF "aboutMe" \notin elems
    THEN shown
    ELSE [bio |-> IF data = Null THEN "About section coming soon..."
                  ELSE OrElse(data.aboutMe, "About section coming soon..."),
          headshot |-> IF data = Null THEN "" ELSE data.headshot]

renderProjectsList(shown, elems, projects) ==
    IF "projectList" \notin elems
    THEN shown
    ELSE [i \in 1..Len(projects) |-> projects[i].id]

\* Mutant: showing a project also ends the scroll session's slot.
renderSpotlight_ResetsScroll(app, shown, elems, project) ==
    [appState |-> [app EXCEPT !.currentProjectId = Str(project.id),
                              !.scrollController = NULL],
     spotlight |-> shown]

\* renderSpotlight(project): the spotlight and appState afterwards.
renderSpotlight(app, shown, elems, project) ==
    IF "projectSpotlight" \notin elems \/ "spotlightTitles" \notin elems
    THEN [appState |-> app, spotlight |-> shown]
    ELSE [appState |-> [app EXCEPT !.currentProjectId = Str(project.id)],
          spotlight |-> [image |-> project.spotlightImage,
                         title |-> project.name,
                         description |-> project.long,
                         href |-> IF project.url # "" /\ project.url # "#"
                                  THEN project.url ELSE "#",
                         disabled |-> ~(project.url # "" /\ project.url # "#")]]

\* Array.prototype.find: the first project with the id, or none (an empty
\* sequence).
findProject(projects, projectId) ==
    LET hits == {i \in 1..Len(projects) : projects[i].id = projectId}
    IN  IF hits = {} THEN <<>>
        ELSE <<projects[CHOOSE i \in hits : \A j \in hits : i <= j]>>

\* Mutant: the card's id is shown without looking the project up.
handleCardClick_NoLookup(app, shown, elems, card) ==
    IF card = <<>>
    THEN [appState |-> app, spotlight |-> shown]
    ELSE [appState |-> [app EXCEPT !.currentProjectId = Str(card[1])],
          spotlight |-> shown]

\* handleCardClick on a click whose closest('.projectCard') is card: << >>
\* outside every card, <<id>> inside the card of that data-id.
handleCardClick(app, shown, elems, card) ==
    IF card = <<>>
    THEN [appState |-> app, spotlight |-> shown]
    ELSE LET project == findProject(app.projectsData, card[1])
         IN  IF project # <<>>
             THEN renderSpotlight(app, shown, elems, project[1])
             ELSE [appState |-> app, spotlight |-> shown]

\* ----------------------------------------------------------- form validation

\* Input values are sequences of one-character strings.
MESSAGE_LIMIT == 300

Alnum ==
    {"a", "b", "c", "d", "e", "f", "g", "h", "i", "j", "k", "l", "m",
     "n", "o", "p", "q", "r", "s", "t", "u", "v", "w", "x", "y", "z",
     "A", "B", "C", "D", "E", "F", "G", "H", "I", "J", "K", "L", "M",
     "N", "O", "P", "Q", "R", "S", "T", "U", "V", "W", "X", "Y", "Z",
     "0", "1", "2", "3", "4", "5", "6", "7", "8", "9"}

\* The characters \s matches, as far as an input can hold them.
Whitespace == {" ", "\t", "\n"}

\* value.trim() is the empty string.
trimIsEmpty(value) == \A i \in 1..Len(value) : value[i] \in Whitespace

\* REGEX.illegalChars = /[^a-zA-Z0-9@._-]/ matches somewhere in value.
illegalChars(value) ==
    \E i \in 1..Len(value) : value[i] \notin Alnum \cup {"@", ".", "_", "-"}

\* value[from..to] is one or more characters, none of them \s or @.
plainRun(value, from, to) ==
    /\ from <= to
    /\ \A i \in from..to : value[i] \notin Whitespace \cup {"@"}

\* REGEX.email = /^[^\s@]+@[^\s@]+\.[^\s@]+$/ matches value.
emailRegex(value) ==
    \E at \in 1..Len(value), dot \in 1..Len(value) :
        /\ value[at] = "@"
        /\ value[dot] = "."
        /\ plainRun(value, 1, at - 1)
        /\ plainRun(value, at + 1, dot - 1)
        /\ plainRun(value, dot + 1, Len(value))

validateEmail(value) ==
    IF trimIsEmpty(value)
    THEN [isValid |-> FALSE, message |-> "Email address is required."]
    ELSE IF illegalChars(value)
    THEN [isValid |-> FALSE,
          message |-> "Email contains invalid characters. Only letters, numbers, @, ., _, and - are allowed."]
    ELSE IF ~emailRegex(value)
    THEN [isValid |-> FALSE, message |-> "Please enter a valid email address."]
    ELSE [isValid |-> TRUE, message |-> ""]

validateMessage(value) ==
    IF trimIsEmpty(value)
    THEN [isValid |-> FALSE, message |-> "Message is required."]
    ELSE IF illegalChars(value)
    THEN [isValid |-> FALSE,
          message |-> "Message contains invalid characters. Only letters, numbers, @, ., _, and - are allowed."]
    ELSE IF Len(value) > MESSAGE_LIMIT
    THEN [isValid |-> FALSE, message |-> "Message must be 300 characters or less."]
    ELSE [isValid |-> TRUE, message |-> ""]

\* updateCharCounter: the counter shows the message's length, in the error
\* class when over the limit.
updateCharCounter(f, elems) ==
    IF "contactMessage" \notin elems \/ "charactersLeft" \notin elems
    THEN f
    ELSE [f EXCEPT !.counter = Len(f.message),
                   !.counterError = (MESSAGE_LIMIT - Len(f.message) < 0)]

\* showError / clearError on an error element that may be missing.
showError(f, elems, field, id, message) ==
    IF id \in elems THEN [f EXCEPT ![field] = message] ELSE f

clearError(f, elems, field, id) ==
    IF id \in elems THEN [f EXCEPT ![field] = ""] ELSE f

\* Mutant: the errors of the previous submit are not cleared first.
handleSubmit_KeepsErrors(f, elems) ==
    IF "contactEmail" \notin elems \/ "contactMessage" \notin elems
    THEN [form |-> f, alert |-> FALSE]
    ELSE LET emailValidation == validateEmail(f.email)
             messageValidation == validateMessage(f.message)
             f2 == IF ~emailValidation.isValid
                   THEN showError(f, elems, "emailError", "emailError",
                                  emailValidation.message)
                   ELSE f
             f3 == IF ~messageValidation.isValid
                   THEN showError(f2, elems, "messageError", "messageError",
                                  messageValidation.message)
                   ELSE f2
         IN  IF emailValidation.isValid /\ messageValidation.isValid
             THEN [form |-> updateCharCounter(
                                [f3 EXCEPT !.email = <<>>, !.message = <<>>],
                                elems),
                   alert |-> TRUE]
             ELSE [form |-> f3, alert |-> FALSE]

\* handleSubmit: the form afterwards and whether alert('Submission
\* successful!') was shown.
handleSubmit(f, elems) ==
    IF "contactEmail" \notin elems \/ "contactMessage" \notin elems
    THEN [form |-> f, alert |-> FALSE]
    ELSE LET f1 == clearError(clearError(f, elems, "emailError", "emailError"),
                              elems, "messageError", "messageError")
             emailValidation == validateEmail(f.email)
             messageValidation == validateMessage(f.message)
             f2 == IF ~emailValidation.isValid
                   THEN showError(f1, elems, "emailError", "emailError",
                                  emailValidation.message)
                   ELSE f1
             f3 == IF ~messageValidation.isValid
                   THEN showError(f2, elems, "messageError", "messageError",
                                  messageValidation.message)
                   ELSE f2
             isFormValid == emailValidation.isValid /\ messageValidation.isValid
         IN  IF isFormValid
             THEN [form |-> updateCharCounter(
                                [f3 EXCEPT !.email = <<>>, !.message = <<>>],
                                elems),
                   alert |-> TRUE]
             ELSE [form |-> f3, alert |-> FALSE]

\* The blur listener init puts on an input: validate, show or clear the error.
validateOnBlur(f, elems, validation, field, id) ==
    IF ~validation.isValid
    THEN showError(f, elems, field, id, validation.message)
    ELSE clearError(f, elems, field, id)

\* ---------------------------------------------------------------- listeners

AllElements ==
    {"aboutMe", "projectList", "projectSpotlight", "spotlightTitles",
     "projectNavArrows", "arrowLeft", "arrowRight", "contactEmail",
     "contactMessage", "emailError", "messageError", "charactersLeft",
     "formSection"}

\* The documents the page is modelled on: the whole markup, the markup
\* without its arrows, the markup without the right arrow, the markup
\* without the spotlight's titles and the email's error element.
DomConfigs ==
    {AllElements,
     AllElements \ {"projectNavArrows", "arrowLeft", "arrowRight"},
     AllElements \ {"arrowRight"},
     AllElements \ {"spotlightTitles", "emailError"}}

StartTypes == {"pointerdown", "mousedown"}

StopTypes == {"pointerup", "mouseup", "mouseleave", "pointercancel", "blur"}

WindowStopTypes == {"blur", "resize"}

\* One registration.  addEventListener keeps one registration per target,
\* type and function object: a named function registers once however often
\* it is added (closure 0), an arrow function written in place is a new
\* object each time init runs (closure: the invocation that made it).
Listener(target, type, handler, direction, closure) ==
    [target |-> target, type |-> type, handler |-> handler,
     direction |-> direction, closure |-> closure]

arrowListeners(arrow, direction, closure) ==
    {Listener(arrow, t, "startContinuousScroll", direction, closure) :
        t \in StartTypes}
    \cup {Listener(arrow, t, "stopContinuousScroll", 0, 0) : t \in StopTypes}

\* setupArrowScrolling, called by invocation closure of init.
setupArrowScrolling(ls, elems, closure) ==
    IF "projectNavArrows" \notin elems \/ "projectList" \notin elems
    THEN ls
    ELSE ls
         \cup (IF "arrowLeft" \in elems
                THEN arrowListeners("arrowLeft", -1, closure) ELSE {})
         \cup (IF "arrowRight" \in elems
                THEN arrowListeners("arrowRight", 1, closure) ELSE {})
         \cup {Listener("window", t, "stopContinuousScroll", 0, 0) :
                   t \in WindowStopTypes}

\* The other registrations of init.
initListeners(ls, elems, closure) ==
    ls
    \cup (IF "projectList" \in elems
           THEN {Listener("projectList", "click", "handleCardClick", 0, 0)}
           ELSE {})
    \cup (IF "contactEmail" \in elems
           THEN {Listener("contactEmail", "blur", "validateEmail", 0, closure)}
           ELSE {})
    \cup (IF "contactMessage" \in elems
           THEN {Listener("contactMessage", "input", "updateCharCounter", 0, 0),
                 Listener("contactMessage", "blur", "validateMessage", 0, closure)}
           ELSE {})
    \cup (IF "formSection" \in elems
           THEN {Listener("formSection", "submit", "handleSubmit", 0, 0)}
           ELSE {})

\* The listeners an event of the type on the target runs.
listening(ls, target, type) == {l \in ls : l.target = target /\ l.type = type}

\* ---------------------------------------------------------------- initial

InitAppState ==
    [aboutMeData |-> Null,
     projectsData |-> <<>>,
     currentProjectId |-> Null,
     scrollController |-> NULL,
     isInitialized |-> FALSE]

Call(op, container, direction) ==
    [op |-> op, container |-> container, direction |-> direction,
     slot |-> appState.scrollController]

\* Ghost: no session.
NoSession ==
    [scrollLeft |-> 0, scrollTop |-> 0, ticksX |-> 0, ticksY |-> 0,
     direction |-> 0, replaced |-> 0]

InitForm ==
    [email |-> <<>>, message |-> <<>>, emailError |-> "", messageError |-> "",
     counter |-> 0, counterError |-> FALSE]

Init ==
    /\ appState = InitAppState
    /\ timers = [live |-> {}, next |-> 1]
    /\ projectList = [scrollLeft |-> 0, scrollTop |-> 0]
    /\ viewportWidth \in Widths
    /\ resizePending = FALSE
    /\ uncaught = FALSE
    /\ nTicks = 0
    /\ session = NoSession
    /\ last = [op |-> "none", container |-> Null, direction |-> 0, slot |-> NULL]
    /\ dom \in DomConfigs
    /\ initPc = [i \in 1..MaxInits |-> "idle"]
    /\ listeners = {}
    /\ cards = <<>>
    /\ spotlight = [image |-> "", title |-> "", description |-> "", href |-> "#",
                    disabled |-> FALSE]
    /\ aboutMe = [bio |-> "", headshot |-> ""]
    /\ form = InitForm
    /\ alerted = FALSE
    /\ initRuns = 0

\* Ghost: what is left of a session once the slot is empty.
Ended(app) ==
    IF app.scrollController = NULL THEN NoSession ELSE session

\* The direction of the live timers' session, 0 when none is live.
liveDirection ==
    IF timers.live = {} THEN 0 ELSE (CHOOSE t \in timers.live : TRUE).direction

\* Ghost: a start in the direction, taken now.
Started(direction) ==
    [scrollLeft |-> projectList.scrollLeft, scrollTop |-> projectList.scrollTop,
     ticksX |-> 0, ticksY |-> 0, direction |-> direction,
     replaced |-> liveDirection]

\* ----------------------------------------------- the functions, called directly

\* A caller invokes startContinuousScroll(container, direction).
CallStart(container, direction) ==
    /\ timers.next <= ApiTimers
    /\ LET r == startContinuousScroll(appState, timers, container, direction)
       IN  /\ appState' = r.appState
           /\ timers' = r.timers
           /\ uncaught' = (uncaught \/ r.threw)
    /\ session' = Started(direction)
    /\ last' = Call("start", container, direction)
    /\ UNCHANGED <<projectList, viewportWidth, resizePending, nTicks, pageVars>>

\* A caller invokes stopContinuousScroll().
CallStop ==
    /\ LET r == stopContinuousScroll(appState, timers)
       IN  /\ appState' = r.appState
           /\ timers' = r.timers
           /\ uncaught' = (uncaught \/ r.threw)
           /\ session' = Ended(r.appState)
    /\ last' = Call("stop", Null, 0)
    /\ UNCHANGED <<projectList, viewportWidth, resizePending, nTicks, pageVars>>

\* A caller invokes scrollByAxis(container, delta).
CallScrollByAxis(container, delta) ==
    /\ nTicks < ApiTicks
    /\ LET r == scrollByAxis(projectList, container, delta, viewportWidth)
       IN  /\ projectList' = r.el
           /\ uncaught' = (uncaught \/ r.threw)
    /\ nTicks' = nTicks + 1
    /\ last' = Call("scrollByAxis", container, delta)
    /\ UNCHANGED <<appState, timers, viewportWidth, resizePending, session,
                   pageVars>>

\* The host runs the callback of a live interval timer:
\* () => scrollByAxis(container, direction).
Tick(maxTicks) ==
    /\ nTicks < maxTicks
    /\ \E t \in timers.live :
          /\ LET r == scrollByAxis(projectList, t.container, t.direction,
                                   viewportWidth)
             IN  /\ projectList' = r.el
                 /\ uncaught' = (uncaught \/ r.threw)
          /\ last' = Call("tick", t.container, t.direction)
    /\ nTicks' = nTicks + 1
    /\ session' = IF viewportWidth >= 1024
                  THEN [session EXCEPT !.ticksY = @ + 1]
                  ELSE [session EXCEPT !.ticksX = @ + 1]
    /\ UNCHANGED <<appState, timers, viewportWidth, resizePending, pageVars>>

\* The viewport takes another width; nothing of the script listens.
SetViewport ==
    /\ \E w \in Widths \ {viewportWidth} : viewportWidth' = w
    /\ last' = Call("viewport", Null, 0)
    /\ UNCHANGED <<appState, resizePending, uncaught, scrollVars, pageVars>>

Containers == {Null, PROJECT_LIST}

Deltas == {-1, 1, 2}

\* The state after construction in a document that has every element the
\* script looks up.
CompleteInit == Init /\ dom = AllElements

ApiNext ==
    \/ \E c \in Containers, d \in Directions : CallStart(c, d)
    \/ CallStop
    \/ \E c \in Containers, d \in Deltas : CallScrollByAxis(c, d)
    \/ Tick(ApiTicks)
    \/ SetViewport

\* The scroll functions under a caller that invokes them in any order with
\* any arguments, and the host's timer.
ApiSpec == CompleteInit /\ [][ApiNext]_vars

\* -------------------------------------------------------------------- init

AboutBody ==
    [kind |-> "object", aboutMe |-> "I build things.",
     headshot |-> "/images/headshot.webp"]

RawProject(id, name, url, image) ==
    [kind |-> "object", project_id |-> id, project_name |-> name,
     short_description |-> "", long_description |-> "", url |-> url,
     card_image |-> image, spotlight_image |-> image]

Ok(body) == [kind |-> "ok", body |-> body]

Failures ==
    {[kind |-> "http_error"], [kind |-> "network_failure"], [kind |-> "timeout"]}

AboutOutcomes == {Ok(AboutBody)} \cup Failures

\* What /data/projectsData.json can answer: two whole records, a record
\* with fields missing, no record, a null among the records, an object
\* where the array should be; or a failure.
ProjectsOutcomes ==
    {Ok([kind |-> "array",
         items |-> <<RawProject("p1", "One", "https://one.example", "/images/one.webp"),
                     RawProject("p2", "Two", "", "")>>]),
     Ok([kind |-> "array", items |-> <<RawProject("", "", "", "")>>]),
     Ok(EmptyArray),
     Ok([kind |-> "array", items |-> <<Null>>]),
     Ok([kind |-> "object"])}
    \cup Failures

\* init is invoked: it returns at once when the page is initialized, and
\* else starts loadAllData and waits for it.
InitCall(i) ==
    /\ initPc[i] = "idle"
    /\ initPc' = [initPc EXCEPT
                    ![i] = IF appState.isInitialized THEN "returned" ELSE "loading"]
    /\ UNCHANGED <<appState, viewportWidth, resizePending, uncaught, last, scrollVars, dom, listeners,
                   cards, spotlight, aboutMe, form, alerted, initRuns>>

\* The two requests of invocation i have ended: loadAllData stores what they
\* gave, and init goes on to render, to register its listeners and to set
\* isInitialized.
InitResume(i, abouts, projects) ==
    /\ initPc[i] = "loading"
    /\ \E a \in abouts, p \in projects :
          LET loaded == loadAllData(appState, a, p)
              shown == IF Len(loaded.projectsData) > 0
                       THEN renderSpotlight(loaded, spotlight, dom,
                                            loaded.projectsData[1])
                       ELSE [appState |-> loaded, spotlight |-> spotlight]
          IN  /\ appState' = [shown.appState EXCEPT !.isInitialized = TRUE]
              /\ spotlight' = shown.spotlight
              /\ aboutMe' = renderAboutMe(aboutMe, dom, loaded.aboutMeData)
              /\ cards' = renderProjectsList(cards, dom, loaded.projectsData)
    /\ listeners' = initListeners(setupArrowScrolling(listeners, dom, i), dom, i)
    /\ form' = updateCharCounter(form, dom)
    /\ initPc' = [initPc EXCEPT ![i] = "done"]
    /\ initRuns' = initRuns + 1
    /\ UNCHANGED <<viewportWidth, resizePending, uncaught, last, scrollVars, dom, alerted>>

\* ------------------------------------------------------------------ events

RECURSIVE startTimes(_, _, _, _, _)
\* The start listeners of one event, one after the other.
startTimes(app, tt, container, direction, k) ==
    IF k = 0
    THEN [appState |-> app, timers |-> tt, threw |-> FALSE]
    ELSE LET r == startContinuousScroll(app, tt, container, direction)
             rest == startTimes(r.appState, r.timers, container, direction, k - 1)
         IN  [rest EXCEPT !.threw = @ \/ r.threw]

\* pointerdown or mousedown on an arrow: every start listener registered for
\* the event runs startContinuousScroll(projectsList, direction).
HoldStart(arrow, maxTimers) ==
    /\ \E type \in StartTypes : listening(listeners, arrow, type) # {}
    /\ LET type == CHOOSE t \in StartTypes : listening(listeners, arrow, t) # {}
           ls == listening(listeners, arrow, type)
           k == Cardinality(ls)
           direction == (CHOOSE l \in ls : TRUE).direction
       IN  /\ timers.next + k - 1 <= maxTimers
           /\ LET r == startTimes(appState, timers, PROJECT_LIST, direction, k)
              IN  /\ appState' = r.appState
                  /\ timers' = r.timers
                  /\ uncaught' = (uncaught \/ r.threw)
           /\ last' = Call("start", PROJECT_LIST, direction)
           /\ session' = Started(direction)
    /\ UNCHANGED <<projectList, viewportWidth, resizePending, nTicks, pageVars>>

\* The events whose listener is stopContinuousScroll, the resize of the
\* window apart: pointerup, mouseup, mouseleave, pointercancel or blur on an
\* arrow, blur of the window.
StopEvents ==
    {<<a, t>> : a \in {"arrowLeft", "arrowRight"}, t \in StopTypes}
    \cup {<<"window", "blur">>}

\* One of these events reaches a target that listens for it.
StopEvent ==
    /\ \E e \in StopEvents :
          \E l \in listening(listeners, e[1], e[2]) :
              l.handler = "stopContinuousScroll"
    /\ LET r == stopContinuousScroll(appState, timers)
       IN  /\ appState' = r.appState
           /\ timers' = r.timers
           /\ uncaught' = (uncaught \/ r.threw)
           /\ session' = Ended(r.appState)
    /\ last' = Call("stop", Null, 0)
    /\ UNCHANGED <<projectList, viewportWidth, resizePending, nTicks, pageVars>>

\* The window is resized: the viewport has another width at once, and the
\* resize event fires when the host next updates the rendering; tasks of
\* timers and of input may run in between.
ViewportChange ==
    /\ \E w \in Widths \ {viewportWidth} : viewportWidth' = w
    /\ resizePending' = TRUE
    /\ UNCHANGED <<appState, uncaught, last, scrollVars, pageVars>>

\* The resize event fires: the listener of the window, when registered, runs
\* stopContinuousScroll.
ResizeEvent ==
    /\ resizePending
    /\ resizePending' = FALSE
    /\ IF \E l \in listening(listeners, "window", "resize") :
             l.handler = "stopContinuousScroll"
       THEN LET r == stopContinuousScroll(appState, timers)
            IN  /\ appState' = r.appState
                /\ timers' = r.timers
                /\ uncaught' = (uncaught \/ r.threw)
                /\ session' = Ended(r.appState)
                /\ last' = Call("stop", Null, 0)
       ELSE UNCHANGED <<appState, timers, uncaught, last, session>>
    /\ UNCHANGED <<projectList, viewportWidth, nTicks, pageVars>>

\* A click in #projectList, inside a card or outside every card.
CardClick ==
    /\ listening(listeners, "projectList", "click") # {}
    /\ \E card \in {<<>>} \cup {<<cards[i]>> : i \in 1..Len(cards)} :
          LET r == handleCardClick(appState, spotlight, dom, card)
          IN  /\ appState' = r.appState
              /\ spotlight' = r.spotlight
    /\ UNCHANGED <<viewportWidth, resizePending, uncaught, last, scrollVars, dom, initPc, listeners,
                   cards, aboutMe, form, alerted, initRuns>>

Emails == {<<>>, <<"a", "@", "b", ".", "c">>}

Messages == {<<>>, <<"o", "k">>}

\* The user changes the value of the email input.
EditEmail(values) ==
    /\ "contactEmail" \in dom
    /\ \E v \in values \ {form.email} : form' = [form EXCEPT !.email = v]
    /\ UNCHANGED <<appState, viewportWidth, resizePending, uncaught, last, scrollVars, dom, initPc,
                   listeners, cards, spotlight, aboutMe, alerted, initRuns>>

\* The user changes the value of the message input: the input event runs
\* updateCharCounter once it is registered.
EditMessage(values) ==
    /\ "contactMessage" \in dom
    /\ \E v \in values \ {form.message} :
          LET typed == [form EXCEPT !.message = v]
          IN  form' = IF listening(listeners, "contactMessage", "input") # {}
                      THEN updateCharCounter(typed, dom)
                      ELSE typed
    /\ UNCHANGED <<appState, viewportWidth, resizePending, uncaught, last, scrollVars, dom, initPc,
                   listeners, cards, spotlight, aboutMe, alerted, initRuns>>

\* An input loses the focus: its blur listeners validate it.
BlurInput ==
    /\ \/ /\ listening(listeners, "contactEmail", "blur") # {}
          /\ form' = validateOnBlur(form, dom, validateEmail(form.email),
                                    "emailError", "emailError")
       \/ /\ listening(listeners, "contactMessage", "blur") # {}
          /\ form' = validateOnBlur(form, dom, validateMessage(form.message),
                                    "messageError", "messageError")
    /\ UNCHANGED <<appState, viewportWidth, resizePending, uncaught, last, scrollVars, dom, initPc,
                   listeners, cards, spotlight, aboutMe, alerted, initRuns>>

\* The form is submitted.
Submit ==
    /\ listening(listeners, "formSection", "submit") # {}
    /\ LET r == handleSubmit(form, dom)
       IN  /\ form' = r.form
           /\ alerted' = r.alert
    /\ UNCHANGED <<appState, viewportWidth, resizePending, uncaught, last, scrollVars, dom, initPc,
                   listeners, cards, spotlight, aboutMe, initRuns>>

Arrows == {"arrowLeft", "arrowRight"}

\* ------------------------------------------------------------ specifications

\* The answers the whole page is modelled on: both requests succeed.
PageAbouts == {Ok(AboutBody)}

PageProjects ==
    {Ok([kind |-> "array",
         items |-> <<RawProject("p1", "One", "https://one.example", "/images/one.webp"),
                     RawProject("p2", "Two", "", "")>>])}

Next ==
    \/ InitCall(1)
    \/ InitResume(1, PageAbouts, PageProjects)
    \/ \E a \in Arrows : HoldStart(a, PageTimers)
    \/ StopEvent
    \/ ViewportChange
    \/ ResizeEvent
    \/ Tick(PageTicks)
    \/ CardClick
    \/ EditEmail(Emails)
    \/ EditMessage(Messages)
    \/ BlurInput
    \/ Submit

\* The page: init, called once when the document is ready, then every event
\* the user and the host can raise.
Spec == CompleteInit /\ [][Next]_vars

ScrollNext ==
    \/ InitCall(1)
    \/ InitResume(1, {Ok(AboutBody)}, {Ok(EmptyArray)})
    \/ \E a \in Arrows : HoldStart(a, MaxTimers)
    \/ StopEvent
    \/ ViewportChange
    \/ ResizeEvent
    \/ Tick(MaxTicks)

DataNext ==
    \/ \E i \in 1..MaxInits : InitCall(i)
    \/ \E i \in 1..MaxInits : InitResume(i, AboutOutcomes, ProjectsOutcomes)
    \/ CardClick

\* The loading of the data under every answer of the two requests, and the
\* cards it renders.
DataSpec == Init /\ [][DataNext]_vars

\* The page as the scroll controller sees it: init, the events of the arrows
\* and of the window, and the timer.
ScrollSpec == Init /\ [][ScrollNext]_vars

\* ------------------------------------------------------------------ claims

slot == appState.scrollController

\* A step in which a hold starts on an arrow of the page.
HoldStep == \E a \in Arrows : HoldStart(a, MaxTimers)

\* A step in which a stop trigger reaches its listener.
StopStep ==
    \/ StopEvent
    \/ ResizeEvent /\ listening(listeners, "window", "resize") # {}

\* The stop triggers: five events on each arrow, two on the window.
StopTriggers ==
    {<<a, t>> : a \in {"arrowLeft", "arrowRight"},
                t \in {"pointerup", "mouseup", "mouseleave", "pointercancel",
                        "blur"}}
    \cup {<<"window", "blur">>, <<"window", "resize">>}

\* C1: at most one interval timer is live and it is the one whose handle
\* appState.scrollController holds; a start during a session clears the old
\* timer first, so that one stop leaves no timer live.
C1_OneLiveTimer ==
    /\ Cardinality(timers.live) <= 1
    /\ \A t \in timers.live : t.id = slot
    /\ (slot # NULL => \E t \in timers.live : t.id = slot)
    /\ (last.op = "stop" => timers.live = {})

\* A start was called while a session was active, and one timer is live.
C1_Witness ==
    /\ last.op = "start"
    /\ last.slot # NULL
    /\ slot # last.slot
    /\ Cardinality(timers.live) = 1

\* C2: during a session every stop trigger on an element of the document
\* has stopContinuousScroll listening; a stop trigger empties the slot; and
\* while the slot stays empty no timer is live, no tick runs and the offsets
\* of the container stay.
C2_StopIsTotal ==
    [][/\ (slot # NULL =>
              \A e \in StopTriggers :
                  (e[1] = "window" \/ e[1] \in dom) =>
                      \E l \in listening(listeners, e[1], e[2]) :
                          l.handler = "stopContinuousScroll")
       /\ (StopStep => slot' = NULL /\ timers'.live = {})
       /\ (slot = NULL => timers.live = {})
       /\ (slot = NULL /\ ~HoldStep =>
              /\ slot' = NULL
              /\ projectList' = projectList
              /\ nTicks' = nTicks)]_vars

\* A stop trigger ended a session that had ticked, with ticks to spare.
C2_Witness ==
    /\ last.op = "stop"
    /\ last.slot # NULL
    /\ slot = NULL
    /\ nTicks > 0
    /\ nTicks < MaxTicks
    /\ projectList # [scrollLeft |-> 0, scrollTop |-> 0]

\* C3: in a session of direction d the ticks that ran on the horizontal
\* axis moved scrollLeft by d * 20 each and the ticks that ran on the vertical
\* axis moved scrollTop by d * 20 each, and nothing else moved them: N ticks
\* on one axis add d * N * 20 to its offset and leave the other offset.
C3_TicksAddAlongAxis ==
    slot # NULL =>
        LET d == liveDirection
        IN  /\ d \in {-1, 1}
            /\ projectList.scrollLeft = session.scrollLeft + d * session.ticksX * 20
            /\ projectList.scrollTop = session.scrollTop + d * session.ticksY * 20

\* Two ticks of a session upwards, both on a wide viewport.
C3_Witness ==
    /\ slot # NULL
    /\ session.ticksY >= 2
    /\ session.ticksX = 0
    /\ liveDirection = -1
    /\ projectList.scrollTop = session.scrollTop - 40
    /\ projectList.scrollLeft = session.scrollLeft

\* C4: the axis is 'y' exactly for the widths from 1024 on: 1024 gives 'y',
\* 1023 gives 'x'; and a tick moves the list along the axis of the width it
\* runs at.
C4_AxisThreshold ==
    [][/\ \A w \in Widths \cup (1000..1050) :
             /\ getAxis(w) \in {"x", "y"}
             /\ (getAxis(w) = "y") <=> (w >= 1024)
       /\ getAxis(1024) = "y"
       /\ getAxis(1023) = "x"
       /\ (Tick(MaxTicks) =>
              IF viewportWidth >= 1024
              THEN /\ projectList'.scrollTop # projectList.scrollTop
                   /\ projectList'.scrollLeft = projectList.scrollLeft
              ELSE /\ projectList'.scrollLeft # projectList.scrollLeft
                   /\ projectList'.scrollTop = projectList.scrollTop)]_vars

\* A tick at a width of exactly 1024 moved the list vertically.
C4_Witness ==
    /\ viewportWidth = 1024
    /\ ~resizePending
    /\ last.op = "tick"
    /\ slot # NULL
    /\ session.ticksY >= 1
    /\ session.ticksX = 0
    /\ projectList.scrollTop # session.scrollTop
    /\ projectList.scrollLeft = session.scrollLeft

\* C5: stopContinuousScroll raises nothing; with no session it changes
\* nothing; and a second call right after changes nothing more.
C5_StopIdempotent ==
    [][CallStop =>
         /\ uncaught' = uncaught
         /\ projectList' = projectList
         /\ (slot = NULL => appState' = appState /\ timers' = timers)
         /\ LET again == stopContinuousScroll(appState', timers')
            IN  /\ again.appState = appState'
                /\ again.timers = timers'
                /\ ~again.threw]_vars

\* stopContinuousScroll was called with no session, after an earlier start.
C5_Witness ==
    /\ last.op = "stop"
    /\ last.slot = NULL
    /\ slot = NULL
    /\ timers.next > 1
    /\ ~uncaught

C7_ScrollWithoutContainer ==
    [][(\E d \in Deltas : CallScrollByAxis(Null, d)) =>
         /\ uncaught' = uncaught
         /\ projectList' = projectList
         /\ appState' = appState
         /\ timers' = timers]_vars

\* scrollByAxis was called with a missing container.
C7_Witness ==
    /\ last.op = "scrollByAxis"
    /\ last.container = Null
    /\ ~uncaught
    /\ nTicks > 0

\* C8: a hold-start during a session leaves one session, of the new
\* direction: the old timer is gone, and every tick moves the list by the
\* direction of the latest hold-start times 20.
C8_DirectionReplaced ==
    [][/\ (HoldStart("arrowLeft", MaxTimers) => session'.direction = -1)
       /\ (HoldStart("arrowRight", MaxTimers) => session'.direction = 1)
       /\ (HoldStep =>
              /\ slot' # NULL
              /\ slot' # slot
              /\ timers'.live = {[id |-> slot', container |-> PROJECT_LIST,
                                  direction |-> session'.direction]})
       /\ (Tick(MaxTicks) =>
              IF viewportWidth >= 1024
              THEN /\ projectList'.scrollTop =
                         projectList.scrollTop + session.direction * 20
                   /\ projectList'.scrollLeft = projectList.scrollLeft
              ELSE /\ projectList'.scrollLeft =
                         projectList.scrollLeft + session.direction * 20
                   /\ projectList'.scrollTop = projectList.scrollTop)]_vars

\* A tick ran in a session that replaced one of the opposite direction.
C8_Witness ==
    /\ last.op = "tick"
    /\ session.replaced # 0
    /\ session.replaced = -session.direction
    /\ session.ticksX + session.ticksY >= 1
    /\ slot # NULL

\* C9: only a hold-start and a stop trigger change appState.scrollController:
\* a tick, a card click, a submit, the loading of the data and the other
\* events of the form leave it as it is.
C9_SlotFrame ==
    [][slot' # slot =>
           /\ ~ \/ Tick(PageTicks)
                \/ CardClick
                \/ Submit
                \/ InitCall(1)
                \/ InitResume(1, PageAbouts, PageProjects)
                \/ EditEmail(Emails)
                \/ EditMessage(Messages)
                \/ BlurInput
                \/ ViewportChange
           /\ \/ \E a \in Arrows : HoldStart(a, PageTimers)
              \/ StopEvent
              \/ ResizeEvent]_vars

\* A session is active after a tick, a click on the second card and a
\* successful submit.
C9_Witness ==
    /\ slot # NULL
    /\ nTicks > 0
    /\ appState.currentProjectId = Str("p2")
    /\ alerted
    /\ appState.isInitialized

\* C10: once loadAllData has completed, whatever the two requests answered,
\* projectsData holds a project and aboutMeData is set; a failed or empty
\* load of the projects gives the one placeholder project.
C10_LoadLeavesAProject ==
    /\ ((\E i \in 1..MaxInits : initPc[i] = "done") =>
          /\ Len(appState.projectsData) >= 1
          /\ appState.aboutMeData # Null)
    /\ \A a \in AboutOutcomes, p \in ProjectsOutcomes :
          LET loaded == loadAllData(appState, a, p)
          IN  /\ Len(loaded.projectsData) >= 1
              /\ loaded.aboutMeData # Null
              /\ ((p.kind # "ok" \/ p.body = EmptyArray) =>
                    loaded.projectsData = <<PlaceholderProject>>)

\* The values typed into the email input: none, blanks, an address, an
\* address without a dot, an address with a character outside the allowed set.
FormEmails ==
    {<<>>, <<" ">>, <<"a", "@", "b", ".", "c">>, <<"a", "@", "b">>,
     <<"a", "!", "@", "b", ".", "c">>}

\* The values typed into the message input: none, a word, two words with a
\* blank, MESSAGE_LIMIT characters, one more than MESSAGE_LIMIT.
FormMessages ==
    {<<>>, <<"o", "k">>, <<"o", " ", "k">>,
     [i \in 1..MESSAGE_LIMIT |-> "a"], [i \in 1..(MESSAGE_LIMIT + 1) |-> "a"]}

FormNext ==
    \/ InitCall(1)
    \/ InitResume(1, PageAbouts, PageProjects)
    \/ EditEmail(FormEmails)
    \/ EditMessage(FormMessages)
    \/ BlurInput
    \/ Submit

\* The state after construction, in a viewport of one width: the form reads
\* no width.
FormInit == Init /\ viewportWidth = MIN_WIDTH

\* The contact form: init, then typing, leaving an input and submitting.
FormSpec == FormInit /\ [][FormNext]_vars

\* Both requests failed and the page holds the placeholder.
C10_Witness ==
    /\ \E i \in 1..MaxInits : initPc[i] = "done"
    /\ appState.projectsData = <<PlaceholderProject>>
    /\ appState.aboutMeData = AboutFallback

\* The ids of the loaded projects.
loadedIds == {appState.projectsData[i].id : i \in 1..Len(appState.projectsData)}

\* The document holds the two elements renderSpotlight needs.
hasSpotlight == "projectSpotlight" \in dom /\ "spotlightTitles" \in dom

\* What a click can hit: no card, the card of a loaded project, a card whose
\* data-id no loaded project has.
ClickTargets == {<<>>, <<"no-such-project">>} \cup {<<id>> : id \in loadedIds}

\* C11: where the document holds the spotlight, init leaves the first loaded
\* project in it and as currentProjectId, and a click on the card of a loaded
\* project makes that project the current one; a click outside every card or
\* on a card of no loaded project changes neither the spotlight nor
\* currentProjectId (nor does any click where the spotlight is missing); so
\* currentProjectId is null or the id of a loaded project.
C11_SpotlightFollowsCards ==
    [][/\ appState.currentProjectId = Null
          \/ \E id \in loadedIds : appState.currentProjectId = Str(id)
       /\ ((\E i \in 1..MaxInits : InitResume(i, AboutOutcomes, ProjectsOutcomes))
              /\ hasSpotlight =>
              /\ appState'.currentProjectId = Str(appState'.projectsData[1].id)
              /\ spotlight'.title = appState'.projectsData[1].name
              /\ spotlight'.description = appState'.projectsData[1].long)
       /\ \A card \in ClickTargets :
             LET r == handleCardClick(appState, spotlight, dom, card)
             IN  IF card # <<>> /\ card[1] \in loadedIds /\ hasSpotlight
                 THEN /\ r.appState.currentProjectId = Str(card[1])
                      /\ r.spotlight.title =
                             findProject(appState.projectsData, card[1])[1].name
                      /\ r.appState.projectsData = appState.projectsData
                 ELSE r.appState = appState /\ r.spotlight = spotlight
       /\ (CardClick =>
              \/ appState' = appState /\ spotlight' = spotlight
              \/ /\ hasSpotlight
                 /\ \E i \in 1..Len(cards) :
                       /\ cards[i] \in loadedIds
                       /\ appState'.currentProjectId = Str(cards[i])
                       /\ spotlight'.title =
                              findProject(appState.projectsData, cards[i])[1].name)
      ]_vars

\* After init showed the first project, a click on the second card made the
\* second project the current one.
C11_Witness ==
    /\ Len(appState.projectsData) = 2
    /\ appState.projectsData[1].id = "p1"
    /\ appState.currentProjectId = Str("p2")
    /\ spotlight.title = appState.projectsData[2].name
    /\ appState.isInitialized

\* C12: handleSubmit reports success exactly when validateEmail and
\* validateMessage both accept the values, and then empties both inputs;
\* otherwise the inputs keep their values; and, where the error elements
\* exist, afterwards an error is shown for the invalid fields and for no
\* other, with the message of the validation.
C12_SubmitIffValid ==
    [][/\ (Submit =>
              LET email == validateEmail(form.email)
                  message == validateMessage(form.message)
                  valid == email.isValid /\ message.isValid
              IN  /\ alerted' <=> valid
                  /\ (valid => form'.email = <<>> /\ form'.message = <<>>)
                  /\ (~valid => form'.email = form.email
                                 /\ form'.message = form.message)
                  /\ IF "emailError" \in dom
                     THEN form'.emailError = email.message
                     ELSE form'.emailError = form.emailError
                  /\ IF "messageError" \in dom
                     THEN form'.messageError = message.message
                     ELSE form'.messageError = form.messageError
                  /\ (email.message = "" <=> email.isValid)
                  /\ (message.message = "" <=> message.isValid))
       /\ \A missing \in {"contactEmail", "contactMessage"} :
             handleSubmit(form, dom \ {missing}) = [form |-> form, alert |-> FALSE]
      ]_vars

\* A submit of two accepted values reported success and emptied the inputs.
C12_Witness ==
    /\ alerted
    /\ form.email = <<>>
    /\ form.message = <<>>
    /\ form.emailError = ""
    /\ form.messageError = ""
    /\ form.counter = 0
    /\ dom = AllElements

\* C13 as stated: the ticks of one session all run on one axis, so that a
\* session has moved scrollLeft or scrollTop since its start, never both.
C13_OneAxisPerSession ==
    slot # NULL =>
        /\ session.ticksX = 0 \/ session.ticksY = 0
        /\ \/ projectList.scrollLeft = session.scrollLeft
           \/ projectList.scrollTop = session.scrollTop

\* C14 as stated: however often and whenever init is invoked, it renders and
\* registers its listeners at most once: no event of a target runs the same
\* handler of init twice.
C14_InitOnce ==
    /\ initRuns <= 1
    /\ \A l1, l2 \in listeners :
          (l1.target = l2.target /\ l1.type = l2.type /\ l1.handler = l2.handler)
              => l1 = l2

====
